---- MODULE Spec2Model ----
(***************************************************************************)
(* lastfm-archiver (src/src/main.rs): the fetch -> parse -> paginate ->    *)
(* persist pipeline as a state machine.                                    *)
(*                                                                         *)
(* Option<T> is a sequence of length at most one: None is <<>> and Some(v) *)
(* is <<v>>.  Result<T, Error> is a record [ok, val, err].  The text of    *)
(* an attribute that the code hands to from_str is a sequence of           *)
(* one-character strings, so that parsing it is a computation.             *)
(***************************************************************************)
EXTENDS Integers, Sequences, FiniteSets, TLC

\* ------------------------------------------------------------------ bounds

\* The largest page number and page count the remote feed reports.
MaxPages == 2

\* The most record elements one response carries.
MaxTracks == 2

\* ----------------------------------------------------------- Option, Result

None == <<>>

Some(v) == <<v>>

IsSome(o) == Len(o) = 1

Unwrap(o) == o[1]

Ok(v) == [ok |-> TRUE, val |-> <<v>>, err |-> ""]

Err(e) == [ok |-> FALSE, val |-> <<>>, err |-> e]

\* ------------------------------------------------------------ number parsing

Digit == [c \in {"0", "1", "2", "3", "4", "5", "6", "7", "8", "9"} |->
            CASE c = "0" -> 0 [] c = "1" -> 1 [] c = "2" -> 2 [] c = "3" -> 3
              [] c = "4" -> 4 [] c = "5" -> 5 [] c = "6" -> 6 [] c = "7" -> 7
              [] c = "8" -> 8 [] c = "9" -> 9]

RECURSIVE digits_value(_, _)
\* The digit loop of from_str: Err on the first character that is no digit.
\* (The overflow branch needs 19 digits or more; the texts here are shorter.)
digits_value(s, acc) ==
    IF s = <<>> THEN Ok(acc)
    ELSE IF Head(s) \notin DOMAIN Digit THEN Err("invalid digit found in string")
    ELSE digits_value(Tail(s), acc * 10 + Digit[Head(s)])

\* u64::from_str: an optional "+", then decimal digits; "-" is no digit.
u64_from_str(s) ==
    IF s = <<>> THEN Err("cannot parse integer from empty string")
    ELSE LET d == IF Head(s) = "+" THEN Tail(s) ELSE s
         IN  IF d = <<>> THEN Err("cannot parse integer from empty string")
             ELSE digits_value(d, 0)

\* i64::from_str: an optional "+" or "-", then decimal digits.
i64_from_str(s) ==
    IF s = <<>> THEN Err("cannot parse integer from empty string")
    ELSE LET d == IF Head(s) \in {"+", "-"} THEN Tail(s) ELSE s
             r == digits_value(d, 0)
         IN  IF d = <<>> THEN Err("cannot parse integer from empty string")
             ELSE IF r.ok /\ Head(s) = "-" THEN Ok(0 - Unwrap(r.val))
             ELSE r

\* ------------------------------------------------------------------- chrono

\* Utc.timestamp with a day number rounded towards zero.
Utc_timestamp_truncated(secs) ==
    [days |-> IF secs < 0 THEN 0 - ((0 - secs) \div 86400) ELSE secs \div 86400,
     secs_of_day |-> secs % 86400]

\* Utc.timestamp(secs, 0): the instant as a day number and the second of
\* that day (floor division, so instants before 1970 keep their day).
Utc_timestamp(secs) ==
    [days |-> secs \div 86400, secs_of_day |-> secs % 86400]

\* DateTime::timestamp(): unix seconds of the instant.
timestamp(dt) == dt.days * 86400 + dt.secs_of_day

\* DateTime::date() with Datelike::year() and month(): the proleptic
\* Gregorian calendar date of the instant's day.
date(dt) ==
    LET z   == dt.days + 719468
        era == z \div 146097
        doe == z - era * 146097
        yoe == (doe - doe \div 1460 + doe \div 36524 - doe \div 146096) \div 365
        doy == doe - (365 * yoe + yoe \div 4 - yoe \div 100)
        mp  == (5 * doy + 2) \div 153
        m   == IF mp < 10 THEN mp + 3 ELSE mp - 9
    IN  [year  |-> yoe + era * 400 + (IF m <= 2 THEN 1 ELSE 0),
         month |-> m,
         day   |-> doy - (153 * mp + 2) \div 5 + 1]

same_month(a, b) == a.month = b.month /\ a.year = b.year

\* ------------------------------------------------------------- Record Model

\* build_track that keeps an identifier as the element gives it.
build_track_keep_empty(track) ==
    IF track.artist = None THEN Err("missing artist")
    ELSE IF track.album = None THEN Err("missing album")
    ELSE IF track.mbid = None THEN Err("missing mbid")
    ELSE IF track.name = None THEN Err("missing name")
    ELSE IF Unwrap(track.name).text = None THEN Err("empty name")
    ELSE IF track.date = None THEN Err("missing date")
    ELSE IF Unwrap(track.date).uts = None THEN Err("missing timestamp")
    ELSE
      LET a    == Unwrap(track.artist)
          b    == Unwrap(track.album)
          secs == i64_from_str(Unwrap(Unwrap(track.date).uts))
      IN  IF ~secs.ok THEN Err(secs.err)
          ELSE Ok([artist |-> IF a.text = None THEN None
                              ELSE Some([mbid |-> a.mbid,
                                         name |-> Unwrap(a.text)]),
                   album  |-> IF b.text = None THEN None
                              ELSE Some([mbid |-> b.mbid,
                                         name |-> Unwrap(b.text)]),
                   mbid   |-> Unwrap(track.mbid).text,
                   name   |-> Unwrap(Unwrap(track.name).text),
                   time   |-> Utc_timestamp(Unwrap(secs.val))])

\* build_track that takes a name element without text as an empty name.
build_track_unnamed(track) ==
    IF track.artist = None THEN Err("missing artist")
    ELSE IF track.album = None THEN Err("missing album")
    ELSE IF track.mbid = None THEN Err("missing mbid")
    ELSE IF track.name = None THEN Err("missing name")
    ELSE IF track.date = None THEN Err("missing date")
    ELSE IF Unwrap(track.date).uts = None THEN Err("missing timestamp")
    ELSE
      LET a    == Unwrap(track.artist)
          b    == Unwrap(track.album)
          secs == i64_from_str(Unwrap(Unwrap(track.date).uts))
      IN  IF ~secs.ok THEN Err(secs.err)
          ELSE Ok([artist |-> IF a.text = None THEN None
                              ELSE Some([mbid |-> SelectSeq(a.mbid, LAMBDA m : m # ""),
                                         name |-> Unwrap(a.text)]),
                   album  |-> IF b.text = None THEN None
                              ELSE Some([mbid |-> SelectSeq(b.mbid, LAMBDA m : m # ""),
                                         name |-> Unwrap(b.text)]),
                   mbid   |-> SelectSeq(Unwrap(track.mbid).text, LAMBDA m : m # ""),
                   name   |-> IF Unwrap(track.name).text = None THEN ""
                              ELSE Unwrap(Unwrap(track.name).text),
                   time   |-> Utc_timestamp(Unwrap(secs.val))])

\* Track::build_track: the children are required in the order artist, album,
\* mbid, name, date; an artist or album without text is None; an empty
\* identifier is None.
build_track(track) ==
    IF track.artist = None THEN Err("missing artist")
    ELSE IF track.album = None THEN Err("missing album")
    ELSE IF track.mbid = None THEN Err("missing mbid")
    ELSE IF track.name = None THEN Err("missing name")
    ELSE IF Unwrap(track.name).text = None THEN Err("empty name")
    ELSE IF track.date = None THEN Err("missing date")
    ELSE IF Unwrap(track.date).uts = None THEN Err("missing timestamp")
    ELSE
      LET a    == Unwrap(track.artist)
          b    == Unwrap(track.album)
          secs == i64_from_str(Unwrap(Unwrap(track.date).uts))
      IN  IF ~secs.ok THEN Err(secs.err)
          ELSE Ok([artist |-> IF a.text = None THEN None
                              ELSE Some([mbid |-> SelectSeq(a.mbid, LAMBDA m : m # ""),
                                         name |-> Unwrap(a.text)]),
                   album  |-> IF b.text = None THEN None
                              ELSE Some([mbid |-> SelectSeq(b.mbid, LAMBDA m : m # ""),
                                         name |-> Unwrap(b.text)]),
                   mbid   |-> SelectSeq(Unwrap(track.mbid).text, LAMBDA m : m # ""),
                   name   |-> Unwrap(Unwrap(track.name).text),
                   time   |-> Utc_timestamp(Unwrap(secs.val))])

\* The filter keeping every element.
not_nowplaying_all(track) == TRUE

\* The filter of build_response: an element is dropped when it carries
\* nowplaying = "true".
not_nowplaying(track) ==
    IF IsSome(track.nowplaying) THEN Unwrap(track.nowplaying) # "true" ELSE TRUE

\* collect leaving out the elements that fail to build.
collect_skip(elems) ==
    LET built == [i \in 1..Len(elems) |-> build_track(elems[i])]
        good  == SelectSeq(built, LAMBDA r : r.ok)
    IN  Ok([i \in 1..Len(good) |-> Unwrap(good[i].val)])

\* collect yielding the tracks in reverse document order.
collect_reversed(elems) ==
    LET built  == [i \in 1..Len(elems) |-> build_track(elems[i])]
        failed == {i \in 1..Len(elems) : ~built[i].ok}
        first  == CHOOSE i \in failed : \A j \in failed : i <= j
    IN  IF failed = {}
        THEN Ok([i \in 1..Len(elems) |-> Unwrap(built[Len(elems) + 1 - i].val)])
        ELSE Err(built[first].err)

\* Iterator<Result<Track>>::collect into Result<Vec<Track>>: the first error
\* in document order, or every track in document order.
collect(elems) ==
    LET built  == [i \in 1..Len(elems) |-> build_track(elems[i])]
        failed == {i \in 1..Len(elems) : ~built[i].ok}
        first  == CHOOSE i \in failed : \A j \in failed : i <= j
    IN  IF failed = {} THEN Ok([i \in 1..Len(elems) |-> Unwrap(built[i].val)])
        ELSE Err(built[first].err)

\* One required numeric attribute of the container.
attribute(attr, missing) ==
    IF attr = None THEN Err(missing) ELSE u64_from_str(Unwrap(attr))

\* Response::build_response: page, totalPages and total are read in this
\* order, then the children are filtered and built.
build_response(response) ==
    LET page         == attribute(response.page, "missing page")
        total_pages  == attribute(response.totalPages, "missing totalPages")
        total_tracks == attribute(response.total, "missing total")
        tracks       == collect(SelectSeq(response.children, not_nowplaying))
    IN  IF ~page.ok THEN Err(page.err)
        ELSE IF ~total_pages.ok THEN Err(total_pages.err)
        ELSE IF ~total_tracks.ok THEN Err(total_tracks.err)
        ELSE IF ~tracks.ok THEN Err(tracks.err)
        ELSE Ok([page         |-> Unwrap(page.val),
                 total_pages  |-> Unwrap(total_pages.val),
                 total_tracks |-> Unwrap(total_tracks.val),
                 tracks       |-> Unwrap(tracks.val)])

\* from_slice reporting every failed status with one fixed message.
from_slice_generic(v) ==
    IF ~v.xml THEN Err("xml parse error")
    ELSE IF v.status = None THEN Err("missing status")
    ELSE IF Unwrap(v.status) = "ok" THEN
        IF v.recenttracks = None THEN Err("missing recenttracks")
        ELSE build_response(Unwrap(v.recenttracks))
    ELSE Err("unknown status")

\* Response::from_slice: the body is parsed as XML, then dispatched on the
\* root's status attribute.
from_slice(v) ==
    IF ~v.xml THEN Err("xml parse error")
    ELSE IF v.status = None THEN Err("missing status")
    ELSE IF Unwrap(v.status) = "ok" THEN
        IF v.recenttracks = None THEN Err("missing recenttracks")
        ELSE build_response(Unwrap(v.recenttracks))
    ELSE IF Unwrap(v.status) = "failed" THEN
        IF v.error = None THEN Err("missing error")
        ELSE IF Unwrap(v.error).text = None THEN Err("missing error message")
        ELSE Err(Unwrap(Unwrap(v.error).text))
    ELSE Err("unknown status")

\* next_cursor with <= for <: one page too many.
next_cursor_le(response) ==
    IF response.page <= response.total_pages THEN Some(response.page + 1) ELSE None

\* next_cursor stepping by two.
next_cursor_skip(response) ==
    IF response.page < response.total_pages THEN Some(response.page + 2) ELSE None

\* The unfold state after a page: the reported page + 1 while the reported
\* page is below the reported page count.
next_cursor(response) ==
    IF response.page < response.total_pages THEN Some(response.page + 1) ELSE None

\* The row Track::insert writes: time, track_mbid, track_name, artist_mbid,
\* artist_name, album_mbid, album_name (a None is NULL).
row_of(track) ==
    [time        |-> timestamp(track.time),
     track_mbid  |-> track.mbid,
     track_name  |-> track.name,
     artist_mbid |-> IF track.artist = None THEN None ELSE Unwrap(track.artist).mbid,
     artist_name |-> IF track.artist = None THEN None ELSE Some(Unwrap(track.artist).name),
     album_mbid  |-> IF track.album = None THEN None ELSE Unwrap(track.album).mbid,
     album_name  |-> IF track.album = None THEN None ELSE Some(Unwrap(track.album).name)]

\* ------------------------------------------------------------ the remote feed

DigitChar == <<"0", "1", "2", "3", "4", "5", "6", "7", "8", "9">>

RECURSIVE Decimal(_)
\* The decimal text of a natural number, as the feed writes it.
Decimal(n) ==
    IF n < 10 THEN <<DigitChar[n + 1]>>
    ELSE Decimal(n \div 10) \o <<DigitChar[(n % 10) + 1]>>

\* A record element of the feed with every required child, an empty artist
\* identifier, an album and an mbid element without text, and the flag set
\* to "false".
TrackA ==
    [nowplaying |-> Some("false"),
     artist     |-> Some([text |-> Some("Artist"), mbid |-> Some("")]),
     album      |-> Some([text |-> None, mbid |-> None]),
     mbid       |-> Some([text |-> None]),
     name       |-> Some([text |-> Some("a")]),
     date       |-> Some([uts |-> Some(Decimal(2678400))])]

\* A second one, a second earlier and so in the month before, without the
\* flag and with every identifier set.
TrackB ==
    [nowplaying |-> None,
     artist     |-> Some([text |-> Some("Artist"), mbid |-> Some("ar-1")]),
     album      |-> Some([text |-> Some("Album"), mbid |-> Some("al-1")]),
     mbid       |-> Some([text |-> Some("tr-1")]),
     name       |-> Some([text |-> Some("b")]),
     date       |-> Some([uts |-> Some(Decimal(2678399))])]

\* The listen in progress: flagged, and without a date.
NowPlaying ==
    [TrackA EXCEPT !.nowplaying = Some("true"), !.name = Some([text |-> Some("np")]),
                   !.date = None]

\* Record elements that lack one required child each.
Incomplete ==
    { [TrackB EXCEPT !.artist = None],
      [TrackB EXCEPT !.album = None],
      [TrackB EXCEPT !.mbid = None],
      [TrackB EXCEPT !.name = None],
      [TrackB EXCEPT !.date = None],
      [TrackB EXCEPT !.date = Some([uts |-> None])] }

\* The record elements the feed serves.
Elements == {TrackA, TrackB, NowPlaying} \cup Incomplete

\* Sequences over S of length at most n.
SeqsUpTo(S, n) == UNION {[1..m -> S] : m \in 0..n}

\* The container of a feed of one page with the children cs.
OnePage(cs) ==
    [page |-> Some(Decimal(1)), totalPages |-> Some(Decimal(1)),
     total |-> Some(Decimal(Len(cs))), children |-> cs]

\* A body whose status is "ok" and whose container is c.
OkBody(c) ==
    [xml |-> TRUE, status |-> Some("ok"), recenttracks |-> Some(c), error |-> None]

\* Bodies that yield no page: malformed XML, no status, an unknown status,
\* the forms of a failed status, an ok status without a container, and a
\* failed and an unknown status that carry a container all the same.
NoPageBodies ==
    { [xml |-> FALSE, status |-> None, recenttracks |-> None, error |-> None],
      [xml |-> TRUE, status |-> None, recenttracks |-> None, error |-> None],
      [xml |-> TRUE, status |-> Some("busy"), recenttracks |-> None, error |-> None],
      [xml |-> TRUE, status |-> Some("failed"), recenttracks |-> None, error |-> None],
      [xml |-> TRUE, status |-> Some("failed"), recenttracks |-> None,
       error |-> Some([text |-> None])],
      [xml |-> TRUE, status |-> Some("failed"), recenttracks |-> None,
       error |-> Some([text |-> Some("Invalid API key")])],
      [xml |-> TRUE, status |-> Some("failed"), recenttracks |-> None,
       error |-> Some([text |-> Some("unknown status")])],
      [xml |-> TRUE, status |-> Some("ok"), recenttracks |-> None, error |-> None],
      [xml |-> TRUE, status |-> Some("failed"), recenttracks |-> Some(OnePage(<<TrackA>>)),
       error |-> Some([text |-> Some("Operation failed")])],
      [xml |-> TRUE, status |-> Some("busy"), recenttracks |-> Some(OnePage(<<TrackA>>)),
       error |-> None] }

\* The texts a numeric attribute of the container may hold.
AttrTexts ==
    {None, Some(<<"x">>)} \cup {Some(Decimal(i)) : i \in 0..MaxPages}

\* The page size the requests ask for (limit=).
MAX_TRACKS == 200

\* The i-th listen of the two-page feed, most recent first.
Listen(i) ==
    [TrackB EXCEPT !.name = Some([text |-> Some(ToString(i))]),
                   !.date = Some([uts |-> Some(Decimal(2678400 - i))])]

\* The two-page feed: page 1 holds MAX_TRACKS elements, the first of them the
\* listen in progress, and page 2 holds the 5 listens left of the 205.
TwoPages(n) ==
    [page |-> Some(Decimal(n)), totalPages |-> Some(Decimal(2)),
     total |-> Some(Decimal(205)),
     children |-> IF n = 1
                  THEN <<NowPlaying>> \o [i \in 1..(MAX_TRACKS - 1) |-> Listen(i)]
                  ELSE [i \in 1..5 |-> Listen(MAX_TRACKS - 1 + i)]]

\* The text of an integer as a feed writes it, negative ones with a sign.
SignedDecimal(n) == IF n < 0 THEN <<"-">> \o Decimal(0 - n) ELSE Decimal(n)

\* Instants a record's uts attribute may carry: before, at and after the
\* epoch, at the ends of a day, and the last second of a 32-bit clock.
UtsValues == {-86401, -1, 0, 1, 86399, 86400, 2678400, 2147483647}

\* The artist (or album) child of a record: absent, or with or without text
\* and with an absent, empty or set mbid attribute.
CreditChildren ==
    {None} \cup {Some([text |-> t, mbid |-> m]) :
                   t \in {None, Some("Credit")}, m \in {None, Some(""), Some("id-1")}}

\* The record elements a one-record page may hold: every combination of the
\* children build_track reads.
AnyRecords ==
    {[nowplaying |-> None, artist |-> ar, album |-> al, mbid |-> mb, name |-> nm,
      date |-> dt] :
        ar \in CreditChildren, al \in CreditChildren,
        mb \in {None, Some([text |-> None]), Some([text |-> Some("")]),
                Some([text |-> Some("tr-1")])},
        nm \in {None, Some([text |-> None]), Some([text |-> Some("n")])},
        dt \in {None, Some([uts |-> None]), Some([uts |-> Some(<<"x">>)])}
                 \cup {Some([uts |-> Some(SignedDecimal(T))]) : T \in UtsValues}}

\* Unix seconds of second secs of calendar day c (year, month, day).
unix_of(c) ==
    LET y   == IF c.month <= 2 THEN c.year - 1 ELSE c.year
        era == y \div 400
        yoe == y - era * 400
        mp  == IF c.month > 2 THEN c.month - 3 ELSE c.month + 9
        doy == (153 * mp + 2) \div 5 + c.day - 1
        doe == yoe * 365 + yoe \div 4 - yoe \div 100 + doy
    IN  (era * 146097 + doe - 719468) * 86400 + c.secs

\* Listening times of the feed of months: two of February 1970, one of the
\* last second of January 1970, one of February 1971.
Civils ==
    {[year |-> 1970, month |-> 2, day |-> 1, secs |-> 0],
     [year |-> 1970, month |-> 2, day |-> 28, secs |-> 43200],
     [year |-> 1970, month |-> 1, day |-> 31, secs |-> 86399],
     [year |-> 1971, month |-> 2, day |-> 15, secs |-> 1]}

\* The record of a listen at c.
MonthRecord(c) ==
    [TrackB EXCEPT !.date = Some([uts |-> Some(SignedDecimal(unix_of(c)))])]

\* Feeds of record content: one page of one record of any shape, or two
\* pages of listens of the months above, the second page reporting one
\* listen more than the first.
RecordServers ==
    {[kind |-> "one record", pages |-> 1], [kind |-> "months", pages |-> 2]}

\* A feed is consistent (it answers a request for page n with page = n and
\* with its page count, and serves any record elements), or arbitrary in its
\* pagination attributes, or the two-page feed.
Servers ==
    {[kind |-> "consistent", pages |-> k] : k \in 1..MaxPages}
        \cup {[kind |-> "arbitrary", pages |-> 0], [kind |-> "two pages", pages |-> 2]}

\* The bodies feed s may answer a request for page n with.
Bodies(s, n) ==
    NoPageBodies \cup
    CASE s.kind = "consistent" ->
           { OkBody([page |-> Some(Decimal(n)), totalPages |-> Some(Decimal(s.pages)),
                     total |-> Some(Decimal(5)), children |-> cs]) :
               cs \in SeqsUpTo(Elements, MaxTracks) }
      [] s.kind = "arbitrary" ->
           { OkBody([page |-> p, totalPages |-> tp, total |-> t, children |-> cs]) :
               p \in AttrTexts, tp \in AttrTexts,
               t \in {None, Some(<<"x">>), Some(Decimal(5))},
               cs \in {<<TrackA>>, <<[TrackB EXCEPT !.date = None]>>} }
      [] s.kind = "two pages" -> { OkBody(TwoPages(n)) }
      [] s.kind = "one record" ->
           { OkBody([page |-> Some(Decimal(n)), totalPages |-> Some(Decimal(1)),
                     total |-> Some(Decimal(1)), children |-> <<e>>]) :
               e \in AnyRecords }
      [] s.kind = "months" ->
           { OkBody([page |-> Some(Decimal(n)), totalPages |-> Some(Decimal(2)),
                     total |-> Some(Decimal(MaxTracks + n)), children |-> cs]) :
               cs \in SeqsUpTo({MonthRecord(c) : c \in Civils}, MaxTracks) }

\* The record elements of a body that are not flagged as playing now.
Records(b) ==
    IF b.xml /\ b.status = Some("ok") /\ b.recenttracks # None
    THEN SelectSeq(Unwrap(b.recenttracks).children,
                   LAMBDA e : e.nowplaying # Some("true"))
    ELSE <<>>

\* Requests of one run that the model follows (a feed that keeps reporting
\* the same page would be asked forever).
MaxFetches == MaxPages + 1

\* --------------------------------------------------------------------- state

VARIABLES
    server,      \* the remote feed
    pc,          \* where the run stands
    setup_runs,  \* executions of the schema script
    next,        \* the unfold state of fetch_tracks: Option<page number>
    body,        \* the body received and not yet parsed
    response,    \* the Response being consumed; its tracks are those left
    rows,        \* the rows of table play written by this run, in order
    prev_date,   \* archiver's prev_date
    bar,         \* the progress bar: length, set_length calls, position
    printed,     \* the dates of the "Archiving <month> <year>" lines
    err,         \* the Error the run failed with
    exit_code,   \* the process's exit code, once it has exited
    fetches,     \* history: the page numbers requested, in order
    reported,    \* history: page and total_pages of each parsed response
    served       \* history: per body received, its unflagged record elements

vars == <<server, pc, setup_runs, next, body, response, rows, prev_date, bar,
          printed, err, exit_code, fetches, reported, served>>

NoResponse == [page |-> 0, total_pages |-> 0, total_tracks |-> 0, tracks |-> <<>>]

Init ==
    /\ server \in Servers
    /\ pc = "setup"
    /\ setup_runs = 0
    /\ next = Some(1)
    /\ body = None
    /\ response = NoResponse
    /\ rows = <<>>
    /\ prev_date = None
    /\ bar = [length |-> 0, length_sets |-> 0, pos |-> 0]
    /\ printed = <<>>
    /\ err = None
    /\ exit_code = None
    /\ fetches = <<>>
    /\ reported = <<>>
    /\ served = <<>>

\* Fail that notes an error of the loop and goes on with the next track.
Fail_skip(e) ==
    /\ pc' = IF pc = "loop" THEN "loop" ELSE "failed"
    /\ err' = Some(e)

\* An Err(e) reaches the top of the future: the run is over.
Fail(e) ==
    /\ pc' = "failed"
    /\ err' = Some(e)

\* SetupDatabase whose failure is noted while the stream is polled all the
\* same.
SetupDatabase_ignored ==
    /\ pc = "setup"
    /\ setup_runs' = setup_runs + 1
    /\ pc' = "poll"
    /\ \/ err' = err
       \/ err' = Some("storage error")
    /\ UNCHANGED <<server, next, body, response, rows, prev_date, bar, printed,
                   exit_code, fetches, reported, served>>

\* setup_database: the schema script runs; it may fail.
SetupDatabase ==
    /\ pc = "setup"
    /\ setup_runs' = setup_runs + 1
    /\ \/ pc' = "poll" /\ err' = err
       \/ Fail("storage error")
    /\ UNCHANGED <<server, next, body, response, rows, prev_date, bar, printed,
                   exit_code, fetches, reported, served>>

\* for_each polls the stream and the unfold closure runs: with Some(n) the
\* request for page n is sent.
Request ==
    /\ pc = "poll"
    /\ next # None
    /\ Len(fetches) < MaxFetches
    /\ fetches' = Append(fetches, Unwrap(next))
    /\ pc' = "request"
    /\ UNCHANGED <<server, setup_runs, next, body, response, rows, prev_date, bar,
                   printed, err, exit_code, reported, served>>

\* The unfold closure with None: the stream ends and for_each resolves Ok.
StreamEnd ==
    /\ pc = "poll"
    /\ next = None
    /\ pc' = "finished"
    /\ UNCHANGED <<server, setup_runs, next, body, response, rows, prev_date, bar,
                   printed, err, exit_code, fetches, reported, served>>

\* client.request or concat2 fails.
NetworkError ==
    /\ pc = "request"
    /\ Fail("network error")
    /\ UNCHANGED <<server, setup_runs, next, body, response, rows, prev_date, bar,
                   printed, exit_code, fetches, reported, served>>

\* The body of the response arrives.
Receive ==
    /\ pc = "request"
    /\ \E b \in Bodies(server, fetches[Len(fetches)]) :
          /\ body' = Some(b)
          /\ served' = Append(served, Records(b))
    /\ pc' = "body"
    /\ UNCHANGED <<server, setup_runs, next, response, rows, prev_date, bar,
                   printed, err, exit_code, fetches, reported>>

\* Parse that counts on from the page it requested.
Parse_requested ==
    /\ pc = "body"
    /\ LET r == from_slice(Unwrap(body))
           n == fetches[Len(fetches)]
       IN  IF r.ok
           THEN /\ response' = Unwrap(r.val)
                /\ next' = IF n < Unwrap(r.val).total_pages THEN Some(n + 1) ELSE None
                /\ reported' = Append(reported, [page |-> Unwrap(r.val).page,
                                                 total_pages |-> Unwrap(r.val).total_pages])
                /\ pc' = "yielded"
                /\ err' = err
           ELSE /\ Fail(r.err)
                /\ UNCHANGED <<response, next, reported>>
    /\ body' = None
    /\ UNCHANGED <<server, setup_runs, rows, prev_date, bar, printed, exit_code,
                   fetches, served>>

\* Response::from_slice on the body, then the map that computes the next
\* unfold state from the response.
Parse ==
    /\ pc = "body"
    /\ LET r == from_slice(Unwrap(body))
       IN  IF r.ok
           THEN /\ response' = Unwrap(r.val)
                /\ next' = next_cursor(Unwrap(r.val))
                /\ reported' = Append(reported, [page |-> Unwrap(r.val).page,
                                                 total_pages |-> Unwrap(r.val).total_pages])
                /\ pc' = "yielded"
                /\ err' = err
           ELSE /\ Fail(r.err)
                /\ UNCHANGED <<response, next, reported>>
    /\ body' = None
    /\ UNCHANGED <<server, setup_runs, rows, prev_date, bar, printed, exit_code,
                   fetches, served>>

\* ForEach that forgets the month of the page before.
ForEach_reset ==
    /\ pc = "yielded"
    /\ bar' = [bar EXCEPT !.length = response.total_tracks,
                           !.length_sets = bar.length_sets + 1]
    /\ prev_date' = None
    /\ pc' = "loop"
    /\ UNCHANGED <<server, setup_runs, next, body, response, rows,
                   printed, err, exit_code, fetches, reported, served>>

\* ForEach that sets the length with the first response only.
ForEach_once ==
    /\ pc = "yielded"
    /\ bar' = IF bar.length_sets = 0
              THEN [bar EXCEPT !.length = response.total_tracks, !.length_sets = 1]
              ELSE bar
    /\ pc' = "loop"
    /\ UNCHANGED <<server, setup_runs, next, body, response, rows, prev_date,
                   printed, err, exit_code, fetches, reported, served>>

\* The for_each closure starts on the response: bar.set_length.
ForEach ==
    /\ pc = "yielded"
    /\ bar' = [bar EXCEPT !.length = response.total_tracks,
                           !.length_sets = bar.length_sets + 1]
    /\ pc' = "loop"
    /\ UNCHANGED <<server, setup_runs, next, body, response, rows, prev_date,
                   printed, err, exit_code, fetches, reported, served>>

\* insert that replaces what the table holds.
insert_replace(track) == rows' = <<row_of(track)>>

\* Track::insert succeeding: one row is appended to table play.
insert(track) == rows' = Append(rows, row_of(track))

\* TrackStep that attempts the insert first: a failing insert leaves the
\* bar, the milestone lines and prev_date as they were.
TrackStep_insert_first ==
    /\ pc = "loop"
    /\ response.tracks # <<>>
    /\ LET track      == Head(response.tracks)
           track_date == date(track.time)
       IN  /\ response' = [response EXCEPT !.tracks = Tail(response.tracks)]
           /\ \/ /\ insert(track)
                 /\ printed' = IF prev_date = None
                                    \/ ~same_month(Unwrap(prev_date), track_date)
                               THEN Append(printed, track_date)
                               ELSE printed
                 /\ bar' = [bar EXCEPT !.pos = bar.pos + 1]
                 /\ prev_date' = Some(track_date)
                 /\ UNCHANGED <<pc, err>>
              \/ /\ Fail("storage error")
                 /\ UNCHANGED <<rows, printed, bar, prev_date>>
    /\ UNCHANGED <<server, setup_runs, next, body, exit_code, fetches, reported,
                   served>>

\* One iteration of the loop over response.tracks: the milestone line, the
\* increment, prev_date, then Track::insert, which may fail.
TrackStep ==
    /\ pc = "loop"
    /\ response.tracks # <<>>
    /\ LET track      == Head(response.tracks)
           track_date == date(track.time)
       IN  /\ printed' = IF prev_date = None \/ ~same_month(Unwrap(prev_date), track_date)
                         THEN Append(printed, track_date)
                         ELSE printed
           /\ bar' = [bar EXCEPT !.pos = bar.pos + 1]
           /\ prev_date' = Some(track_date)
           /\ response' = [response EXCEPT !.tracks = Tail(response.tracks)]
           /\ \/ /\ insert(track)
                 /\ UNCHANGED <<pc, err>>
              \/ /\ Fail("storage error")
                 /\ rows' = rows
    /\ UNCHANGED <<server, setup_runs, next, body, exit_code, fetches, reported,
                   served>>

\* LoopEnd that does not wait for the loop: the stream is polled while
\* tracks of the page are left.
LoopEnd_early ==
    /\ pc = "loop"
    /\ pc' = "poll"
    /\ UNCHANGED <<server, setup_runs, next, body, response, rows, prev_date, bar,
                   printed, err, exit_code, fetches, reported, served>>

\* The loop is through: the closure returns Ok(()) and for_each polls again.
LoopEnd ==
    /\ pc = "loop"
    /\ response.tracks = <<>>
    /\ pc' = "poll"
    /\ UNCHANGED <<server, setup_runs, next, body, response, rows, prev_date, bar,
                   printed, err, exit_code, fetches, reported, served>>

\* main: process() returned; an Err is printed and the exit code is 1.
Exit ==
    /\ pc \in {"finished", "failed"}
    /\ exit_code' = IF pc = "failed" THEN Some(1) ELSE Some(0)
    /\ pc' = "exited"
    /\ UNCHANGED <<server, setup_runs, next, body, response, rows, prev_date, bar,
                   printed, err, fetches, reported, served>>

Next ==
    \/ SetupDatabase
    \/ Request
    \/ StreamEnd
    \/ NetworkError
    \/ Receive
    \/ Parse
    \/ ForEach
    \/ TrackStep
    \/ LoopEnd
    \/ Exit

Spec == Init /\ [][Next]_vars

\* The run against a feed of record content.
InitRecords ==
    /\ server \in RecordServers
    /\ pc = "setup"
    /\ setup_runs = 0
    /\ next = Some(1)
    /\ body = None
    /\ response = NoResponse
    /\ rows = <<>>
    /\ prev_date = None
    /\ bar = [length |-> 0, length_sets |-> 0, pos |-> 0]
    /\ printed = <<>>
    /\ err = None
    /\ exit_code = None
    /\ fetches = <<>>
    /\ reported = <<>>
    /\ served = <<>>

SpecRecords == InitRecords /\ [][Next]_vars

\* ------------------------------------------------------------------- claims

RECURSIVE Flatten(_)
\* The concatenation of a sequence of sequences.
Flatten(pages) ==
    IF pages = <<>> THEN <<>> ELSE Head(pages) \o Flatten(Tail(pages))

\* All but the last element of a sequence.
Front(s) == SubSeq(s, 1, Len(s) - 1)

\* The run came to its end without an error.
Succeeded == pc \in {"finished", "exited"} /\ err = None

\* Every response parsed so far reports the page that was requested and
\* k pages in all.
ReportsAll(k) ==
    \A i \in 1..Len(reported) :
        reported[i].page = fetches[i] /\ reported[i].total_pages = k

\* Every response parsed so far reports the page that was requested.
PageEchoed == \A i \in 1..Len(reported) : reported[i].page = fetches[i]

\* C1: when every response to a request for page n reports page = n and
\* totalPages = k (k >= 1), the pages requested are 1, 2, ... in this order,
\* never more than k of them, and a run that ends without an error has
\* requested exactly k pages and ended the stream.
C1_ExactlyKFetches ==
    \A k \in 1..MaxPages :
        ReportsAll(k) =>
            /\ \A i \in 1..Len(fetches) : fetches[i] = i
            /\ Len(fetches) <= k
            /\ Succeeded => (Len(fetches) = k /\ next = None)

\* A run over an arbitrary feed that answered page 1 and page 2 of 2 and
\* ended well.
C1_Witness ==
    /\ server.kind = "arbitrary"
    /\ pc = "exited" /\ err = None
    /\ ReportsAll(2)
    /\ fetches = <<1, 2>>

\* C2 as stated: on a run without an error, whatever the responses report,
\* the pages requested are 1, 2, 3, ... without a gap or a repeat, and none
\* exceeds the totalPages reported when it is requested (that of the
\* response before it).
C2_Original ==
    err = None =>
        \A i \in 1..Len(fetches) :
            /\ fetches[i] = i
            /\ i > 1 => fetches[i] <= reported[i - 1].total_pages

\* C2 (amended): when every response reports the page that was requested,
\* the pages requested are 1, 2, 3, ... without a gap or a repeat, and each
\* page after the first is at most the totalPages the response before it
\* reported.
C2_SequentialWhenPageEchoed ==
    PageEchoed =>
        \A i \in 1..Len(fetches) :
            /\ fetches[i] = i
            /\ i > 1 => fetches[i] <= reported[i - 1].total_pages

\* Two pages requested from a feed that echoes the page and changes its
\* page count between the responses.
C2_Witness ==
    /\ Len(reported) = 2
    /\ PageEchoed
    /\ reported[1].total_pages = 2
    /\ reported[2].total_pages = 1
    /\ err = None

\* C3: once an error has occurred it stays, no further page is requested,
\* no further body is received and no further row is written; an error
\* leaves the run failed, and the process exits with 1 after an error and
\* with 0 only without one.
C3_ErrorAborts ==
    /\ [][err # None =>
            /\ err' = err
            /\ fetches' = fetches
            /\ served' = served
            /\ rows' = rows]_vars
    /\ [](err # None => pc \in {"failed", "exited"})
    /\ [](pc = "exited" => exit_code = Some(IF err = None THEN 0 ELSE 1))

\* An insert failed on the second page with a track of that page left and
\* a row of the first page written; the process has exited with 1.
C3_Witness ==
    /\ err = Some("storage error")
    /\ exit_code = Some(1)
    /\ Len(fetches) = 2
    /\ Len(rows) = 1
    /\ response.tracks # <<>>

\* C4: a page is requested only when no track of the response is left and
\* every unflagged record received has its row; a row is written only
\* while the loop runs over the page received last (no request in flight);
\* so the records without a row all belong to the last body received.
C4_NoFetchBeforePageConsumed ==
    /\ [][fetches' # fetches =>
            /\ response.tracks = <<>>
            /\ Len(rows) = Len(Flatten(served))]_vars
    /\ [][rows' # rows =>
            /\ pc = "loop"
            /\ body = None
            /\ Len(fetches) = Len(served)]_vars
    /\ [](served # <<>> =>
            /\ Len(rows) >= Len(Flatten(Front(served)))
            /\ Len(rows) <= Len(Flatten(served)))

\* The request for page 2 is in flight and both tracks of page 1 have
\* their rows.
C4_Witness ==
    /\ pc = "request"
    /\ Len(fetches) = 2
    /\ Len(served) = 1
    /\ Len(rows) = 2

\* C5: when the run ends without an error the rows are, in order, the
\* unflagged record elements of the bodies received, page after page and
\* in document order within a page (name and time of each); a consistent
\* feed of k pages was asked for k pages; the two-page feed (200 elements,
\* one of them flagged, then 5) gives 204 rows after requests for pages 1
\* and 2.
C5_RowsAreTheRecords ==
    Succeeded =>
        LET records == Flatten(served)
        IN  /\ Len(rows) = Len(records)
            /\ \A i \in 1..Len(records) :
                  /\ Some(rows[i].track_name) = Unwrap(records[i].name).text
                  /\ Some(Decimal(rows[i].time)) = Unwrap(records[i].date).uts
            /\ server.kind # "arbitrary" => Len(fetches) = server.pages
            /\ server.kind = "two pages" => (Len(rows) = 204 /\ fetches = <<1, 2>>)

\* The run over the two-page feed has ended well with 204 rows.
C5_Witness ==
    /\ server.kind = "two pages"
    /\ pc = "exited" /\ err = None
    /\ Len(rows) = 204
    /\ rows[1].track_name = "1"
    /\ rows[204].track_name = "204"

\* The body has status "ok" and a container.
HasPage(b) == b.xml /\ b.status = Some("ok") /\ b.recenttracks # None

\* A numeric attribute text: present, and digits only.
Numeric(attr) ==
    /\ attr # None
    /\ Unwrap(attr) # <<>>
    /\ \A i \in 1..Len(Unwrap(attr)) : Unwrap(attr)[i] \in DOMAIN Digit

\* page, totalPages and total of the container are numbers.
ContainerValid(b) ==
    LET c == Unwrap(b.recenttracks)
    IN  Numeric(c.page) /\ Numeric(c.totalPages) /\ Numeric(c.total)

\* The messages that name a required child the record element lacks.
MissingMessages(e) ==
    {m \in {"missing artist", "missing album", "missing mbid", "missing name",
            "missing date", "missing timestamp"} :
        \/ m = "missing artist" /\ e.artist = None
        \/ m = "missing album" /\ e.album = None
        \/ m = "missing mbid" /\ e.mbid = None
        \/ m = "missing name" /\ e.name = None
        \/ m = "missing date" /\ e.date = None
        \/ m = "missing timestamp" /\ e.date # None /\ Unwrap(e.date).uts = None}

\* The record element lacks a required child.
IncompleteRecord(e) == MissingMessages(e) # {}

\* The record element has every required child, a name with text and a
\* numeric uts.
WellFormedRecord(e) ==
    /\ ~IncompleteRecord(e)
    /\ Unwrap(e.name).text # None
    /\ Numeric(Unwrap(e.date).uts)

\* The first incomplete record element of a sequence that holds one.
FirstIncomplete(es) ==
    es[CHOOSE i \in 1..Len(es) :
          /\ IncompleteRecord(es[i])
          /\ \A j \in 1..(i - 1) : ~IncompleteRecord(es[j])]

\* The page number n of the first body whose unflagged records hold an
\* incomplete one and which has been parsed (0 when there is none).
FirstBadPage ==
    LET bad == {n \in 1..Len(served) :
                  /\ \E i \in 1..Len(served[n]) : IncompleteRecord(served[n][i])
                  /\ n < Len(served) \/ body = None}
    IN  IF bad = {} THEN 0 ELSE CHOOSE n \in bad : \A m \in bad : n <= m

C7_NowPlayingDropped ==
    /\ [][(/\ pc = "body"
           /\ HasPage(Unwrap(body))
           /\ ContainerValid(Unwrap(body))
           /\ \A i \in 1..Len(Records(Unwrap(body))) :
                 WellFormedRecord(Records(Unwrap(body))[i]))
          => /\ pc' = "yielded"
             /\ err' = None
             /\ Len(response'.tracks) = Len(Records(Unwrap(body)))
             /\ \A i \in 1..Len(response'.tracks) :
                   Some(response'.tracks[i].name) =
                       Unwrap(Records(Unwrap(body))[i].name).text]_vars
    /\ [](/\ \A i \in 1..Len(response.tracks) : response.tracks[i].name # "np"
          /\ \A i \in 1..Len(rows) : rows[i].track_name # "np")

\* Page 1 of the two-page feed, whose first element is the flagged listen
\* without a date, has parsed to its 199 tracks.
C7_Witness ==
    /\ server.kind = "two pages"
    /\ pc = "yielded"
    /\ Len(fetches) = 1
    /\ Len(response.tracks) = MAX_TRACKS - 1
    /\ response.tracks[1].name = "1"

\* C8: parsing a body whose status is "failed" and whose error element has
\* the text X fails with exactly X, and one whose status is neither "ok" nor
\* "failed" fails with "unknown status"; no Page is produced and no row is
\* written, and after the error no page is requested.
C8_ApiErrors ==
    /\ [][(/\ pc = "body"
           /\ Unwrap(body).xml
           /\ Unwrap(body).status = Some("failed")
           /\ Unwrap(body).error # None
           /\ Unwrap(Unwrap(body).error).text # None)
          => /\ pc' = "failed"
             /\ err' = Unwrap(Unwrap(body).error).text
             /\ rows' = rows /\ response' = response /\ reported' = reported]_vars
    /\ [][(/\ pc = "body"
           /\ Unwrap(body).xml
           /\ Unwrap(body).status \notin {None, Some("ok"), Some("failed")})
          => /\ pc' = "failed"
             /\ err' = Some("unknown status")
             /\ rows' = rows /\ response' = response /\ reported' = reported]_vars
    /\ [][pc = "failed" => (fetches' = fetches /\ rows' = rows)]_vars

\* The second request was answered with a failed status and the error text
\* "Invalid API key"; the rows of page 1 are there.
C8_Witness ==
    /\ pc = "failed"
    /\ err = Some("Invalid API key")
    /\ Len(fetches) = 2
    /\ Len(rows) = 2

\* C9 as stated: a body with status "ok" whose container has numeric page
\* and totalPages and no total attribute, and well-formed records, parses
\* to a Page with total_tracks 0.
C9_MissingTotalTolerated ==
    [][(/\ pc = "body"
        /\ HasPage(Unwrap(body))
        /\ Numeric(Unwrap(Unwrap(body).recenttracks).page)
        /\ Numeric(Unwrap(Unwrap(body).recenttracks).totalPages)
        /\ Unwrap(Unwrap(body).recenttracks).total = None
        /\ \A i \in 1..Len(Records(Unwrap(body))) :
              WellFormedRecord(Records(Unwrap(body))[i]))
       => /\ pc' = "yielded"
          /\ err' = None
          /\ response'.total_tracks = 0
          /\ Len(response'.tracks) = Len(Records(Unwrap(body)))]_vars

\* C10: in every state the rows are the first unflagged record elements of
\* the bodies received, in their order; a step leaves the rows alone or
\* appends one row to them.
C10_RowsArePrefix ==
    /\ [](LET records == Flatten(served)
          IN  /\ Len(rows) <= Len(records)
              /\ \A i \in 1..Len(rows) :
                    /\ Some(rows[i].track_name) = Unwrap(records[i].name).text
                    /\ Some(Decimal(rows[i].time)) = Unwrap(records[i].date).uts)
    /\ [][\/ rows' = rows
          \/ /\ Len(rows') = Len(rows) + 1
             /\ SubSeq(rows', 1, Len(rows)) = rows]_vars

\* A run cut short by a failing insert: one row of three records is there.
C10_Witness ==
    /\ pc = "exited"
    /\ err = Some("storage error")
    /\ Len(rows) = 1
    /\ Len(Flatten(served)) = 3

\* The i-th unflagged record element received in this run.
Served(i) == Flatten(served)[i]

\* The uts attribute of the record element is the text of an integer.
IntegerUts(e) ==
    \/ Numeric(Unwrap(e.date).uts)
    \/ \E T \in UtsValues : Unwrap(e.date).uts = Some(SignedDecimal(T))

\* C11: no Track and no row holds the empty string as an identifier: the
\* mbid of a Track, of its artist and of its album is never "", the columns
\* track_mbid, artist_mbid and album_mbid of a row are never "", and a record
\* whose mbid element, artist mbid attribute or album mbid attribute is ""
\* gives a row with NULL in that column.
C11_EmptyIdentifierIsAbsent ==
    /\ \A i \in 1..Len(response.tracks) :
          LET t == response.tracks[i]
          IN  /\ t.mbid # Some("")
              /\ t.artist # None => Unwrap(t.artist).mbid # Some("")
              /\ t.album # None => Unwrap(t.album).mbid # Some("")
    /\ \A i \in 1..Len(rows) :
          LET r == rows[i]
              e == Served(i)
          IN  /\ Some("") \notin {r.track_mbid, r.artist_mbid, r.album_mbid}
              /\ Unwrap(e.mbid).text = Some("") => r.track_mbid = None
              /\ Unwrap(e.artist).mbid = Some("") => r.artist_mbid = None
              /\ Unwrap(e.album).mbid = Some("") => r.album_mbid = None

\* The row of a record with an artist, an album and an mbid element that all
\* carry "" as identifier.
C11_Witness ==
    /\ Len(rows) = 1
    /\ Served(1).artist = Some([text |-> Some("Credit"), mbid |-> Some("")])
    /\ Served(1).album = Some([text |-> Some("Credit"), mbid |-> Some("")])
    /\ Served(1).mbid = Some([text |-> Some("")])
    /\ rows[1].track_mbid = None /\ rows[1].artist_mbid = None
    /\ rows[1].album_mbid = None
    /\ rows[1].artist_name = Some("Credit") /\ rows[1].album_name = Some("Credit")

\* C12: every row has the name of its record; parsing a page with a record
\* whose name element is missing or has no text fails and writes nothing;
\* parsing a page whose records have every required child, a name with text
\* and an integer uts succeeds whether or not the artist, the album and the
\* mbid elements have text, and the row's artist_name, album_name and
\* track_mbid are NULL exactly for the elements without text (or with "").
C12_NameRequiredOthersOptional ==
    /\ [](\A i \in 1..Len(rows) :
            LET r == rows[i]
                e == Served(i)
            IN  /\ e.name # None
                /\ Unwrap(e.name).text = Some(r.track_name)
                /\ r.artist_name = Unwrap(e.artist).text
                /\ r.album_name = Unwrap(e.album).text
                /\ r.track_mbid = None <=> Unwrap(e.mbid).text \in {None, Some("")})
    /\ [][(/\ pc = "body"
           /\ HasPage(Unwrap(body))
           /\ \E i \in 1..Len(Records(Unwrap(body))) :
                LET e == Records(Unwrap(body))[i]
                IN  e.name = None \/ Unwrap(e.name).text = None)
          => (pc' = "failed" /\ rows' = rows /\ response' = response)]_vars
    /\ [][(/\ pc = "body"
           /\ HasPage(Unwrap(body))
           /\ ContainerValid(Unwrap(body))
           /\ \A i \in 1..Len(Records(Unwrap(body))) :
                LET e == Records(Unwrap(body))[i]
                IN  /\ ~IncompleteRecord(e)
                    /\ Unwrap(e.name).text # None
                    /\ IntegerUts(e))
          => (/\ pc' = "yielded"
              /\ Len(response'.tracks) = Len(Records(Unwrap(body))))]_vars

\* The row of a record with an artist and an album element without text and
\* an mbid element without text.
C12_Witness ==
    /\ Len(rows) = 1
    /\ Served(1).artist = Some([text |-> None, mbid |-> Some("id-1")])
    /\ Served(1).album = Some([text |-> None, mbid |-> None])
    /\ Served(1).mbid = Some([text |-> None])
    /\ rows[1].artist_name = None /\ rows[1].album_name = None
    /\ rows[1].track_mbid = None
    /\ rows[1].track_name = "n"

\* C13: for every integer T, a Track built from a record whose uts attribute
\* is the text of T has T as the unix seconds of its time, and the row
\* written for it has time = T.
C13_TimeIsUts ==
    \A T \in UtsValues :
        /\ \A i \in 1..Len(rows) :
              Unwrap(Served(i).date).uts = Some(SignedDecimal(T)) => rows[i].time = T
        /\ (pc \in {"yielded", "loop"} /\ server.kind = "one record") =>
              \A i \in 1..Len(response.tracks) :
                  Unwrap(Served(i).date).uts = Some(SignedDecimal(T))
                      => timestamp(response.tracks[i].time) = T

\* The row of a record of the second before the epoch.
C13_Witness ==
    /\ Len(rows) = 1
    /\ Unwrap(Served(1).date).uts = Some(<<"-", "1">>)
    /\ rows[1].time = -1

\* C14: the schema script runs once, before any request and any insert: it
\* has not run while the run stands at setup, where nothing was requested or
\* written; it has run exactly once from then on; and a failing setup fails
\* the run, after which nothing is requested and nothing is written.
C14_SetupOnceAndFirst ==
    /\ [](setup_runs <= 1)
    /\ [](pc = "setup" => (setup_runs = 0 /\ fetches = <<>> /\ rows = <<>>))
    /\ [](pc # "setup" => setup_runs = 1)
    /\ [][(pc = "setup") =>
            (/\ setup_runs' = 1
             /\ fetches' = <<>> /\ rows' = <<>>
             /\ err' # None => pc' = "failed")]_vars
    /\ [][(pc \in {"failed", "exited"}) =>
            (/\ fetches' = fetches /\ rows' = rows /\ setup_runs' = setup_runs
             /\ pc' = "exited")]_vars

\* A run whose schema setup failed: it exited with 1 without a request or a
\* row.
C14_Witness ==
    /\ pc = "exited" /\ exit_code = Some(1)
    /\ err = Some("storage error")
    /\ setup_runs = 1
    /\ fetches = <<>> /\ rows = <<>> /\ bar.pos = 0

\* Year and month of the listen of a record of the feed of months.
YearMonth(e) ==
    LET c == CHOOSE c \in Civils : MonthRecord(c) = e
    IN  <<c.year, c.month>>

\* The positions, among the first n records received, of those that are the
\* first of the run or of another (month, year) than the record before.
Milestones(n) ==
    {i \in 1..n : i = 1 \/ YearMonth(Served(i)) # YearMonth(Served(i - 1))}

\* C15: after each record consumed, the milestone lines are those of the
\* records consumed so far that are the first of the run or differ in
\* (month, year) from the record consumed just before, across pages, one
\* line each, in order, with that record's year and month.
C15_MilestoneOnMonthChange ==
    /\ server.kind = "one record" => Len(printed) = bar.pos
    /\ server.kind = "months" =>
          LET fired == Milestones(bar.pos)
          IN  /\ Len(printed) = Cardinality(fired)
              /\ \A i \in fired :
                    LET line == printed[Cardinality({k \in fired : k <= i})]
                    IN  <<line.year, line.month>> = YearMonth(Served(i))

\* Page 1 holds a listen of February 1970, page 2 one of February 1970 and
\* then one of February 1971: two lines, none for the first record of page 2.
C15_Witness ==
    /\ server.kind = "months"
    /\ Len(served) = 2
    /\ Len(served[1]) = 1 /\ Len(served[2]) = 2
    /\ <<YearMonth(Served(1)), YearMonth(Served(2)), YearMonth(Served(3))>>
          = <<(<<1970, 2>>), (<<1970, 2>>), (<<1971, 2>>)>>
    /\ Served(1) # Served(2)
    /\ bar.pos = 3 /\ Len(rows) = 3
    /\ Len(printed) = 2
    /\ printed[2].year = 1971 /\ printed[2].month = 2

\* C16 as stated: the bar is given the total once in a run, with the first
\* page, and not again.
C16_Original ==
    /\ bar.length_sets <= 1
    /\ bar.pos > 0 => bar.length_sets = 1

\* C16 (amended): the bar is given the total of every response consumed, when
\* the response is taken up and before its first track: once per page, so
\* the bar's length is the total the last response taken up reported.
C16_LengthSetPerPage ==
    /\ bar.length_sets = Len(reported) - (IF pc = "yielded" THEN 1 ELSE 0)
    /\ bar.length_sets = 0 => (bar.length = 0 /\ bar.pos = 0)
    /\ (bar.length_sets > 0 /\ pc # "yielded") => bar.length = response.total_tracks

\* The second page of the feed of months is being consumed: the length was
\* set twice, the second time to the total the second page reports.
C16_Witness ==
    /\ server.kind = "months"
    /\ pc = "loop"
    /\ Len(reported) = 2
    /\ bar.length_sets = 2
    /\ bar.length = MaxTracks + 2

\* The run failed in Track::insert.
InsertFailed ==
    pc \in {"failed", "exited"} /\ err = Some("storage error") /\ fetches # <<>>

\* C17: the bar's position is the number of rows or one more; a failing
\* insert comes after the increment, the milestone and prev_date of its
\* track, so a run aborted by an insert has a position one above the number
\* of rows.
C17_ProgressBeforeInsert ==
    /\ [](Len(rows) <= bar.pos /\ bar.pos <= Len(rows) + 1)
    /\ [](InsertFailed => bar.pos = Len(rows) + 1)
    /\ [][(pc = "loop" /\ pc' = "failed") =>
            LET track_date == date(Head(response.tracks).time)
            IN  /\ rows' = rows
                /\ bar'.pos = bar.pos + 1
                /\ prev_date' = Some(track_date)
                /\ printed' = IF prev_date = None
                                   \/ Unwrap(prev_date).month # track_date.month
                                   \/ Unwrap(prev_date).year # track_date.year
                              THEN Append(printed, track_date)
                              ELSE printed]_vars

\* The insert of the second track failed, a track of another month than the
\* first: one row, position 2, two milestone lines.
C17_Witness ==
    /\ InsertFailed
    /\ Len(rows) = 1
    /\ bar.pos = 2
    /\ Len(printed) = 2

\* C18: the page requested after a response is the page that response
\* reports plus one, and there is such a request only if the reported page
\* is below the reported totalPages; otherwise (totalPages = 0 or
\* page >= totalPages among the cases) that fetch is the last; the page that
\* was requested and the responses before play no part.
C18_CursorFromReported ==
    /\ \A i \in 1..Len(reported) :
          LET r == reported[i]
          IN  /\ Len(fetches) > i =>
                    (r.page < r.total_pages /\ fetches[i + 1] = r.page + 1)
              /\ (r.total_pages = 0 \/ r.page >= r.total_pages) => Len(fetches) = i
    /\ (Len(reported) >= 1 /\ Len(reported) = Len(fetches)) =>
          LET r == reported[Len(reported)]
          IN  next = IF r.page < r.total_pages THEN Some(r.page + 1) ELSE None
    /\ (Succeeded /\ Len(reported) >= 1) =>
          reported[Len(reported)].page >= reported[Len(reported)].total_pages

\* The request for page 1 was answered with page 0 of 2, so page 1 was
\* requested again; the answer reported page 2 of 0 and the run ended well.
C18_Witness ==
    /\ fetches = <<1, 1>>
    /\ reported = <<[page |-> 0, total_pages |-> 2], [page |-> 2, total_pages |-> 0]>>
    /\ Succeeded
    /\ next = None

====
